---- MODULE Spec2Model ----
(***************************************************************************)
(* Voice-profile store of KaiwaChan: VoiceProfileManager (profile_manager  *)
(* .py), the create_profile driver of VoiceCloneManager (voice_clone_      *)
(* manager.py) and FeatureExtractor.aggregate_features (feature_extractor  *)
(* .py), as a state machine over the profile directory on disk and the     *)
(* in-memory profile dictionary.                                           *)
(*                                                                         *)
(* Strings are sequences of tokens.  A token is one character ("a", " ",   *)
(* "/", TAB, "_"), the literal chunk "profile_" or the decimal rendering   *)
(* of the clock.  Python dicts are functions whose DOMAIN is the key set.  *)
(* Optional values are sets: {} is None, {x} is x.                         *)
(***************************************************************************)
EXTENDS Integers, Sequences, FiniteSets, TLC

VARIABLES now, disk, profiles, heap, pc, loc, last, hist, ncalls, nfaults

vars == <<now, disk, profiles, heap, pc, loc, last, hist, ncalls, nfaults>>

\* ------------------------------------------------------------- bounds
MaxTime == 1
MaxCalls == 2
MaxFaults == 1
MaxFiles == 2
MaxIdLen == 3
MaxSamples == 3

\* the threads calling into the manager: the UI thread alone, or two callers
MainThread == {1}
ConcurrentThreads == {1, 2}
Threads == DOMAIN pc

\* ------------------------------------------------------------ strings
TAB == "\t"
Whitespace == {" ", TAB}
invalid_chars == {"<", ">", ":", "\"", "/", "\\", "|", "?", "*"}

None == {}
Some(x) == {x}

RECURSIVE lstrip(_)
lstrip(s) == IF s # <<>> /\ Head(s) \in Whitespace THEN lstrip(Tail(s)) ELSE s

RECURSIVE rstrip(_)
rstrip(s) ==
    IF s # <<>> /\ s[Len(s)] \in Whitespace
    THEN rstrip(SubSeq(s, 1, Len(s) - 1))
    ELSE s

strip(s) == rstrip(lstrip(s))

replace(s, old, new) == [i \in 1..Len(s) |-> IF s[i] = old THEN new ELSE s[i]]

RECURSIVE remove_chars(_, _)
remove_chars(s, cs) ==
    IF s = <<>> THEN <<>>
    ELSE IF Head(s) \in cs THEN remove_chars(Tail(s), cs)
         ELSE <<Head(s)>> \o remove_chars(Tail(s), cs)

\* int(time.time()) rendered in an f-string
TimeStr(t) == ToString(t)

\* a sanitizer that leaves inner spaces in place
sanitize_keeps_spaces(profile_id, t) ==
    LET safe_id == remove_chars(strip(profile_id), invalid_chars)
    IN IF safe_id = <<>> THEN <<"profile_", TimeStr(t)>> ELSE safe_id

\* VoiceProfileManager._sanitize_profile_id, with the clock it reads
sanitize_profile_id(profile_id, t) ==
    LET safe_id == remove_chars(replace(strip(profile_id), " ", "_"), invalid_chars)
    IN IF safe_id = <<>> THEN <<"profile_", TimeStr(t)>> ELSE safe_id

\* -------------------------------------------------------------- dicts
HasKey(d, k) == k \in DOMAIN d
SetKey(d, k, v) == [x \in (DOMAIN d) \cup {k} |-> IF x = k THEN v ELSE d[x]]
DelKey(d, k) == [x \in (DOMAIN d) \ {k} |-> d[x]]
Restrict(d, ks) == [x \in (DOMAIN d) \cap ks |-> d[x]]
EmptyDict == [x \in {} |-> 0]

\* the values of these keys are numpy arrays (isinstance(v, np.ndarray))
ArrayKeys == {"speaker_embedding", "f0_samples", "mel_spec_mean"}

\* sidecar file of each array key
SidecarFile(k) ==
    CASE k = "speaker_embedding" -> "speaker_embedding.npy"
      [] k = "f0_samples" -> "f0_samples.npy"
      [] k = "mel_spec_mean" -> "mel_spec_mean.npy"

\* ------------------------------------------------------------- files
\* a file is [ok |-> TRUE, data |-> content], or [ok |-> FALSE] when a write
\* was cut short (truncated JSON / npy that json.load / np.load reject)
GoodFile(content) == [ok |-> TRUE, data |-> content]
CorruptFile == [ok |-> FALSE]

\* a loader that skips a directory lacking any of the three sidecars
LoadDirNeedsSidecars(dir) ==
    IF ~HasKey(dir, "profile.json") THEN None
    ELSE IF \E f \in DOMAIN dir : ~dir[f].ok THEN None
    ELSE IF \E k \in ArrayKeys : ~HasKey(dir, SidecarFile(k)) THEN None
    ELSE LET meta == dir["profile.json"].data
         IN Some([x \in (DOMAIN meta) \cup ArrayKeys |->
                     IF x \in ArrayKeys THEN dir[SidecarFile(x)].data ELSE meta[x]])

\* one profile directory read by _load_existing_profiles: None when the
\* directory is skipped, the loaded dict otherwise
LoadDir(dir) ==
    IF ~HasKey(dir, "profile.json") THEN None
    ELSE IF \E f \in DOMAIN dir : ~dir[f].ok THEN None
    ELSE LET meta == dir["profile.json"].data
             present == {k \in ArrayKeys : HasKey(dir, SidecarFile(k))}
         IN Some([x \in (DOMAIN meta) \cup present |->
                     IF x \in present THEN dir[SidecarFile(x)].data ELSE meta[x]])

\* The disk maps the name of a directory under profiles_dir to its files.
\* profiles_dir / "." is profiles_dir itself (pathlib drops the dot) and
\* profiles_dir / ".." is its parent: the files written under these two
\* names lie in profiles_dir itself and in its parent.
Here == <<".">>
Up == <<".", ".">>
Children(d) == (DOMAIN d) \ {Here, Up}

\* _load_existing_profiles as a map id -> loaded dict; iterdir() yields the
\* sub-directories of profiles_dir, never "." or ".."
LoadExisting(d) ==
    LET ids == {id \in Children(d) : LoadDir(d[id]) # None}
    IN [id \in ids |-> CHOOSE p \in LoadDir(d[id]) : TRUE]

\* -------------------------------------------------------- arithmetic
Abs(x) == IF x < 0 THEN -x ELSE x

RECURSIVE GCD(_, _)
GCD(a, b) == IF b = 0 THEN Abs(a) ELSE GCD(b, a % b)

\* rationals <<numerator, denominator>> in lowest terms, denominator > 0
Rat(n, d) == LET g == GCD(n, d) IN <<n \div g, d \div g>>
RatAdd(p, q) == Rat(p[1] * q[2] + q[1] * p[2], p[2] * q[2])
RatDivInt(p, k) == Rat(p[1], p[2] * k)

\* np.sum; the sequence is halved so that long vectors nest shallowly
RECURSIVE SumSeq(_)
SumSeq(s) ==
    IF s = <<>> THEN 0
    ELSE IF Len(s) = 1 THEN s[1]
    ELSE LET h == Len(s) \div 2
         IN SumSeq(SubSeq(s, 1, h)) + SumSeq(SubSeq(s, h + 1, Len(s)))

RECURSIVE RatSum(_)
RatSum(s) == IF s = <<>> THEN <<0, 1>> ELSE RatAdd(Head(s), RatSum(Tail(s)))

\* np.mean of a non-empty sequence of integers / of rationals
MeanInt(s) == Rat(SumSeq(s), Len(s))
MeanRat(s) == RatDivInt(RatSum(s), Len(s))

RECURSIVE GCDSeq(_)
GCDSeq(v) ==
    IF v = <<>> THEN 0
    ELSE IF Len(v) = 1 THEN Abs(v[1])
    ELSE LET h == Len(v) \div 2
         IN GCD(GCDSeq(SubSeq(v, 1, h)), GCDSeq(SubSeq(v, h + 1, Len(v))))

Dot(u, v) == SumSeq([i \in 1..Len(u) |-> u[i] * v[i]])

\* A vector v / sqrt(den2) with v an integer vector, in canonical form.
\* speaker_embedding / norm  when norm > 0, the vector itself otherwise
\* (only the zero vector has norm 0).
Normalize(v) ==
    LET g == GCDSeq(v)
    IN IF Dot(v, v) > 0
       THEN LET u == [i \in 1..Len(v) |-> v[i] \div g]
            IN [num |-> u, den2 |-> Dot(u, u)]
       ELSE [num |-> v, den2 |-> 1]

\* ----------------------------------------------- aggregate_features
max_samples == 1000
std_length == 100
default_mel_bins == 80
default_f0_mean == 110
default_f0_std == 20

\* features.get('f0_stats', {}).get('mean', 0)
F0MeanOf(features) ==
    IF HasKey(features, "f0_stats") /\ HasKey(features.f0_stats, "mean")
    THEN features.f0_stats.mean ELSE 0

\* float('nan') as a pitch value: pitch means are never negative, so the
\* value -1 stands for it
NaN == -1
IsNaN(x) == x = NaN

\* Python's max(a, b): a unless b > a, and no comparison with nan is true
PyMax(a, b) == IF IsNaN(a) THEN NaN ELSE IF b > a THEN b ELSE a

\* weight = max(f0_mean, 1.0)
Weight(features) == PyMax(F0MeanOf(features), 1)

\* an array all of whose components are nan: 0 / sqrt(0)
NaNVector(D) == [num |-> [j \in 1..D |-> 0], den2 |-> 0]

\* an embedding test that also wants a positive pitch mean
HasEmbeddingAndPitch(features) ==
    HasKey(features, "speaker_embedding") /\ F0MeanOf(features) > 0

HasEmbedding(features) == HasKey(features, "speaker_embedding")
HasValidF0(features) ==
    /\ HasKey(features, "f0_stats")
    /\ HasKey(features.f0_stats, "mean") /\ HasKey(features.f0_stats, "std")
    /\ ~IsNaN(features.f0_stats.mean)
    /\ features.f0_stats.mean > 0
HasMel(features) == HasKey(features, "mel_spec")

\* sum(embeddings * weights[:, newaxis]) / norm: the division of the weights
\* by their (positive) sum scales the vector and the norm alike.  One nan
\* weight makes the weight sum, every weight and every component nan; the
\* norm is then nan, norm > 0 is false and the vector is left as it is.
AggregateEmbedding(fl) ==
    LET es == SelectSeq(fl, HasEmbedding)
        D == Len(es[1].speaker_embedding)
        S == [j \in 1..D |->
                SumSeq([i \in 1..Len(es) |-> Weight(es[i]) * es[i].speaker_embedding[j]])]
    IN IF \E i \in 1..Len(es) : IsNaN(Weight(es[i]))
       THEN NaNVector(D)
       ELSE Normalize(S)

\* a pitch merge that averages every sample that has f0_stats
AggregateF0StatsAll(fl) ==
    LET fs == SelectSeq(fl, LAMBDA f : HasKey(f, "f0_stats"))
    IN IF fs = <<>>
       THEN [mean |-> <<default_f0_mean, 1>>, std |-> <<default_f0_std, 1>>]
       ELSE [mean |-> MeanInt([i \in 1..Len(fs) |-> fs[i].f0_stats.mean]),
             std |-> MeanInt([i \in 1..Len(fs) |-> fs[i].f0_stats.std])]

AggregateF0Stats(fl) ==
    LET fs == SelectSeq(fl, HasValidF0)
    IN IF fs = <<>>
       THEN [mean |-> <<default_f0_mean, 1>>, std |-> <<default_f0_std, 1>>]
       ELSE [mean |-> MeanInt([i \in 1..Len(fs) |-> fs[i].f0_stats.mean]),
             std |-> MeanInt([i \in 1..Len(fs) |-> fs[i].f0_stats.std])]

\* np.array(embeddings) * weights[:, np.newaxis] needs equal-length vectors
EmbeddingShapesAgree(es) ==
    \A i \in 1..Len(es) : Len(es[i].speaker_embedding) = Len(es[1].speaker_embedding)

\* a matrix whose columns are all equal is [rows |-> the column, cols |-> width]
MelShapesAgree(ms) ==
    \A i \in 1..Len(ms) : Len(ms[i].mel_spec) = Len(ms[1].mel_spec)

\* a mel merge that takes the first sample's per-bin means
AggregateMelFirst(fl) ==
    LET ms == SelectSeq(fl, HasMel)
    IN IF ms = <<>>
       THEN [rows |-> [b \in 1..default_mel_bins |-> <<0, 1>>], cols |-> std_length]
       ELSE [rows |-> [b \in 1..Len(ms[1].mel_spec) |-> MeanInt(ms[1].mel_spec[b])],
             cols |-> std_length]

AggregateMel(fl) ==
    LET ms == SelectSeq(fl, HasMel)
    IN IF ms = <<>>
       THEN [rows |-> [b \in 1..default_mel_bins |-> <<0, 1>>], cols |-> std_length]
       ELSE LET bins == Len(ms[1].mel_spec)
                perSample == [i \in 1..Len(ms) |->
                                [b \in 1..bins |-> MeanInt(ms[i].mel_spec[b])]]
            IN [rows |-> [b \in 1..bins |->
                            MeanRat([i \in 1..Len(ms) |-> perSample[i][b]])],
                cols |-> std_length]

RECURSIVE CollectF0Unbounded(_, _)
\* a collection loop without the cap
CollectF0Unbounded(fl, acc) ==
    IF fl = <<>> THEN acc
    ELSE IF HasKey(Head(fl), "f0") /\ Len(Head(fl).f0) > 0
         THEN CollectF0Unbounded(Tail(fl), acc \o Head(fl).f0)
         ELSE CollectF0Unbounded(Tail(fl), acc)

RECURSIVE CollectF0(_, _)
\* the loop of lines 424-431: extend, and truncate and stop once over the cap
CollectF0(fl, acc) ==
    IF fl = <<>> THEN acc
    ELSE IF HasKey(Head(fl), "f0") /\ Len(Head(fl).f0) > 0
         THEN LET ext == acc \o Head(fl).f0
              IN IF Len(ext) > max_samples
                 THEN SubSeq(ext, 1, max_samples)
                 ELSE CollectF0(Tail(fl), ext)
         ELSE CollectF0(Tail(fl), acc)

\* FeatureExtractor.aggregate_features; EmptyDict is the failure result {}
aggregate_features(features_list, t) ==
    IF features_list = <<>> THEN EmptyDict
    ELSE IF SelectSeq(features_list, HasEmbedding) = <<>> THEN EmptyDict
    ELSE IF ~EmbeddingShapesAgree(SelectSeq(features_list, HasEmbedding)) THEN EmptyDict
    ELSE IF ~MelShapesAgree(SelectSeq(features_list, HasMel)) THEN EmptyDict
    ELSE LET f0_samples == CollectF0(features_list, <<>>)
             result == [speaker_embedding |-> AggregateEmbedding(features_list),
                        f0_stats |-> AggregateF0Stats(features_list),
                        mel_spec_mean |-> AggregateMel(features_list),
                        sample_count |-> Len(features_list),
                        created_at |-> t]
         IN IF f0_samples # <<>> THEN SetKey(result, "f0_samples", f0_samples)
            ELSE result

\* ------------------------------------------------------------ inputs
\* profile ids handed to save_profile / delete_profile / rename_profile
SaveIds == { <<"a">>, <<"/", TAB, "a">>, <<"/">> }

\* an id no call ever stores under
UnknownId == <<"z">>

\* display names handed to create_profile and rename_profile
ProfileNames == { <<"a">>, <<"a", " ", "b">> }
NewNames == { <<"c">> }

\* profile dicts handed to save_profile by a caller
P1 == [name |-> <<"a">>, sample_count |-> 1,
       f0_stats |-> [mean |-> <<3, 1>>, std |-> <<0, 1>>],
       speaker_embedding |-> Normalize(<<1, 0>>),
       f0_samples |-> <<3>>,
       mel_spec_mean |-> [rows |-> << <<1, 1>> >>, cols |-> std_length]]
P2 == [name |-> <<"b">>, sample_count |-> 2, created_at |-> 0,
       f0_stats |-> [mean |-> <<5, 2>>, std |-> <<1, 1>>],
       speaker_embedding |-> Normalize(<<0, 1>>),
       mel_spec_mean |-> [rows |-> << <<2, 1>> >>, cols |-> std_length]]
SaveData == {P1, P2}

\* the dimension of a speaker embedding (np.random.randn(192))
embedding_dim == 192
UnitVector(j) == [i \in 1..embedding_dim |-> IF i = j THEN 1 ELSE 0]

\* what extract_features returns for a readable sample (lines 130-139)
FA == [speaker_embedding |-> UnitVector(1), f0 |-> <<3>>,
       f0_stats |-> [mean |-> 3, std |-> 0], mel_spec |-> << <<1, 3>> >>]
FB == [speaker_embedding |-> UnitVector(2), f0 |-> <<>>,
       f0_stats |-> [mean |-> 0, std |-> 0], mel_spec |-> << <<4>> >>]

\* the features a readable audio file holds
FileFeatures(audio_file) == IF audio_file = "f2.wav" THEN FB ELSE FA

\* the ways the speaker-embedding step ends: the model answers, the
\* SpeechBrain repository cannot be had, torch.hub.load raises, encode_batch
\* raises
EmbeddingBackend == {"ok", "repo_unavailable", "model_load_error", "encode_error"}

\* _fallback_speaker_embedding: randn(192) seeded with int(time.time()),
\* divided by its norm; a unit vector that depends on the second alone
fallback_speaker_embedding(t) == UnitVector(3 + t)

\* an embedding step that gives up when the backend fails
extract_speaker_embedding_or_none(wav_embedding, backend, t) ==
    IF backend = "ok" THEN Some(wav_embedding) ELSE None

\* FeatureExtractor._extract_speaker_embedding
extract_speaker_embedding(wav_embedding, backend, t) ==
    CASE backend = "repo_unavailable" -> Some(fallback_speaker_embedding(t))
      [] backend = "model_load_error" -> Some(fallback_speaker_embedding(t))
      [] backend = "encode_error" -> Some(fallback_speaker_embedding(t))
      [] backend = "ok" -> Some(wav_embedding)

\* FeatureExtractor.extract_features on a file path: None for a missing or
\* unreadable file and when the embedding step gives None
extract_features(audio_file, readable, backend, t) ==
    IF ~readable THEN None
    ELSE LET wav == FileFeatures(audio_file)
             speaker_embedding ==
                 extract_speaker_embedding(wav.speaker_embedding, backend, t)
         IN IF speaker_embedding = None THEN None
            ELSE Some([wav EXCEPT !.speaker_embedding =
                                     CHOOSE e \in speaker_embedding : TRUE])

AudioFiles == <<"f1.wav", "f2.wav", "f3.wav", "f4.wav">>
AudioFileLists == {SubSeq(AudioFiles, 1, n) : n \in 0..MaxFiles}

\* a profile directory left by an earlier run, whose name holds a space
LegacyId == <<"a", " ", "b">>
LegacyDir ==
    [x \in {"profile.json", "speaker_embedding.npy"} |->
        IF x = "profile.json"
        THEN GoodFile([name |-> <<"b">>, sample_count |-> 1,
                       created_at |-> 0, updated_at |-> 0])
        ELSE GoodFile(Normalize(<<1, 0>>))]
InitDisks == { EmptyDict, [x \in {LegacyId} |-> LegacyDir] }

\* ------------------------------------------------------ memory model
\* profiles maps an id to a reference; heap maps a reference to the dict
Refs == 1..8
NewRef(h) == CHOOSE r \in Refs : r \notin DOMAIN h /\ \A q \in Refs : q < r => q \in DOMAIN h

\* self.profiles as the caller sees it through get_profile
MemView(pr, h) == [id \in DOMAIN pr |-> h[pr[id]]]

\* a fresh manager: self.profiles = {} then _load_existing_profiles
FreshProfiles(d) ==
    LET loaded == LoadExisting(d)
        ids == DOMAIN loaded
    IN CHOOSE f \in [ids -> 1..Cardinality(ids)] : \A x, y \in ids : x # y => f[x] # f[y]

FreshHeap(d) ==
    LET loaded == LoadExisting(d)
        pr == FreshProfiles(d)
    IN [r \in {pr[id] : id \in DOMAIN pr} |->
          loaded[CHOOSE id \in DOMAIN pr : pr[id] = r]]

IdleLoc ==
    [op |-> "none", ctx |-> "none", id |-> <<>>, safe |-> <<>>, data |-> 0,
     new_name |-> <<>>, files |-> <<>>, name |-> <<>>, has_cb |-> FALSE,
     i |-> 0, features_list |-> <<>>, current_step |-> 0, cb_log |-> <<>>,
     profile_data |-> EmptyDict, save_ok |-> FALSE,
     io_failed |-> FALSE, outcomes |-> <<>>, embed_failed |-> <<>>, agg_failed |-> FALSE, pre_disk |-> EmptyDict, pre_mem |-> EmptyDict]

NoLast == [kind |-> "none"]

\* drop the dicts nothing refers to any more
Collect(h, pr, l) ==
    LET live == {pr[id] : id \in DOMAIN pr} \cup {l[t].data : t \in Threads}
    IN [r \in (DOMAIN h) \cap live |-> h[r]]

Init ==
    /\ now = 0
    /\ disk \in InitDisks
    /\ profiles = FreshProfiles(disk)
    /\ heap = FreshHeap(disk)
    /\ pc = [t \in MainThread |-> "idle"]
    /\ loc = [t \in MainThread |-> IdleLoc]
    /\ last = NoLast
    /\ hist = <<>>
    /\ ncalls = 0
    /\ nfaults = 0

AllIdle == \A t \in Threads : pc[t] = "idle"

\* a call may start: one call at a time on the (single-threaded) UI
CanBegin(t) == pc[t] = "idle" /\ AllIdle /\ ncalls < MaxCalls

\* what the caller of a completed call saw, and the call's final frame
Returned(t, l, r) ==
    [kind |-> "return", t |-> t, op |-> l.op, frame |-> l, result |-> r, at |-> now]
Summary(l, r) == [op |-> l.op, id |-> l.id, result |-> r]

\* the call of thread t returns r to its caller; l is its final frame
Return(t, l, r, pr, h) ==
    /\ pc' = [pc EXCEPT ![t] = "idle"]
    /\ loc' = [loc EXCEPT ![t] = IdleLoc]
    /\ last' = Returned(t, l, r)
    /\ hist' = Append(hist, Summary(l, r))
    /\ profiles' = pr
    /\ heap' = Collect(h, pr, [loc EXCEPT ![t] = IdleLoc])

\* time.time() advances; a call reads the clock within one second of its
\* start, so the clock moves between calls
Tick ==
    /\ AllIdle
    /\ now < MaxTime
    /\ now' = now + 1
    /\ UNCHANGED <<disk, profiles, heap, pc, loc, last, hist, ncalls, nfaults>>

\* the process stops (at any point of any call) and a fresh manager is built
Restart ==
    /\ AllIdle \/ nfaults < MaxFaults
    /\ nfaults' = IF AllIdle THEN nfaults ELSE nfaults + 1
    /\ profiles' = FreshProfiles(disk)
    /\ heap' = FreshHeap(disk)
    /\ pc' = [t \in Threads |-> "idle"]
    /\ loc' = [t \in Threads |-> IdleLoc]
    /\ last' = [kind |-> "crash", pc |-> pc, frames |-> loc, heap |-> heap, at |-> now]
    /\ hist' = hist
    /\ UNCHANGED <<now, disk, ncalls>>

\* ------------------------------------------------------ save_profile
\* metadata = the non-array items, created_at if missing, updated_at (150-158)
Metadata(profile_data, t) ==
    LET m == Restrict(profile_data, (DOMAIN profile_data) \ ArrayKeys)
        c == IF HasKey(m, "created_at") THEN m ELSE SetKey(m, "created_at", t)
    IN SetKey(c, "updated_at", t)

WriteFile(d, dirname, file, content) ==
    [d EXCEPT ![dirname] = SetKey(d[dirname], file, content)]

WriteOutcomes == {"ok", "refused", "cut_short"}

\* save_profile returns r: to the caller of save_profile, or into the
\* rename_profile / create_profile frame that called it
SaveReturn(t, l, r, pr, h) ==
    IF l.ctx = "create"
    THEN /\ pc' = [pc EXCEPT ![t] = "cr_done"]
         /\ loc' = [loc EXCEPT ![t] = [l EXCEPT !.save_ok = r]]
         /\ profiles' = pr
         /\ heap' = h
         /\ UNCHANGED <<last, hist>>
    ELSE Return(t, l, r, pr, h)

\* a caller hands save_profile an id and a dict of its own
BeginSave(t, id, d) ==
    /\ CanBegin(t)
    /\ LET r == NewRef(heap)
       IN /\ heap' = [x \in (DOMAIN heap) \cup {r} |-> IF x = r THEN d ELSE heap[x]]
          /\ loc' = [loc EXCEPT ![t] =
                        [IdleLoc EXCEPT !.op = "save", !.ctx = "direct", !.id = id,
                                        !.data = r, !.pre_disk = disk,
                                        !.pre_mem = MemView(profiles, heap)]]
    /\ pc' = [pc EXCEPT ![t] = "sv_mkdir"]
    /\ last' = NoLast
    /\ hist' = hist
    /\ ncalls' = ncalls + 1
    /\ UNCHANGED <<now, disk, profiles, nfaults>>

\* lines 141-148: sanitize the id, mkdir(parents=True, exist_ok=True)
SaveMkdir(t) ==
    /\ pc[t] = "sv_mkdir"
    /\ LET safe_profile_id == sanitize_profile_id(loc[t].id, now)
           l == [loc[t] EXCEPT !.safe = safe_profile_id]
       IN \/ /\ disk' = IF safe_profile_id \in DOMAIN disk THEN disk
                        ELSE SetKey(disk, safe_profile_id, EmptyDict)
             /\ pc' = [pc EXCEPT ![t] = "sv_json"]
             /\ loc' = [loc EXCEPT ![t] = l]
             /\ UNCHANGED <<profiles, heap, last, hist>>
             /\ UNCHANGED nfaults
          \/ /\ nfaults < MaxFaults
             /\ nfaults' = nfaults + 1
             /\ disk' = disk
             /\ SaveReturn(t, [l EXCEPT !.io_failed = TRUE], FALSE, profiles, heap)
    /\ UNCHANGED <<now, ncalls>>

\* one open()+write of save_profile: done, refused before the file is
\* touched, or cut short after the file was truncated; both failures raise
\* into the except clause of lines 182-186, which returns False
SaveWrite(t, file, content, next) ==
    \E o \in WriteOutcomes :
        /\ o # "ok" => nfaults < MaxFaults
        /\ nfaults' = IF o = "ok" THEN nfaults ELSE nfaults + 1
        /\ o = "ok" => loc[t].safe \in DOMAIN disk
        /\ o = "cut_short" => loc[t].safe \in DOMAIN disk
        /\ disk' = CASE o = "ok" -> WriteFile(disk, loc[t].safe, file, GoodFile(content))
                     [] o = "cut_short" -> WriteFile(disk, loc[t].safe, file, CorruptFile)
                     [] o = "refused" -> disk
        /\ IF o = "ok"
           THEN /\ pc' = [pc EXCEPT ![t] = next]
                /\ UNCHANGED <<profiles, heap, loc, last, hist>>
           ELSE SaveReturn(t, [loc[t] EXCEPT !.io_failed = TRUE], FALSE, profiles, heap)

\* lines 150-162: build the metadata and dump it to profile.json
SaveWriteJson(t) ==
    /\ pc[t] = "sv_json"
    /\ SaveWrite(t, "profile.json", Metadata(heap[loc[t].data], now), "sv_emb")
    /\ UNCHANGED <<now, ncalls>>

\* lines 165-174: np.save of one array, when the dict has it
SaveWriteArray(t, at, key, next) ==
    /\ pc[t] = at
    /\ IF HasKey(heap[loc[t].data], key)
       THEN SaveWrite(t, SidecarFile(key), heap[loc[t].data][key], next)
       ELSE /\ pc' = [pc EXCEPT ![t] = next]
            /\ UNCHANGED <<disk, profiles, heap, loc, last, hist, nfaults>>
    /\ UNCHANGED <<now, ncalls>>

SaveEmbedding(t) == SaveWriteArray(t, "sv_emb", "speaker_embedding", "sv_f0")
SaveF0Samples(t) == SaveWriteArray(t, "sv_f0", "f0_samples", "sv_mel")
SaveMelSpec(t) == SaveWriteArray(t, "sv_mel", "mel_spec_mean", "sv_commit")

\* lines 177-180: self.profiles[safe_profile_id] = profile_data; return True
SaveCommit(t) ==
    /\ pc[t] = "sv_commit"
    /\ SaveReturn(t, loc[t], TRUE, SetKey(profiles, loc[t].safe, loc[t].data), heap)
    /\ UNCHANGED <<now, disk, ncalls, nfaults>>

\* ---------------------------------------------------- delete_profile
\* lines 199-201: an unknown id returns False at once
BeginDelete(t, id) ==
    /\ CanBegin(t)
    /\ ncalls' = ncalls + 1
    /\ LET l == [IdleLoc EXCEPT !.op = "delete", !.id = id, !.pre_disk = disk,
                                !.pre_mem = MemView(profiles, heap)]
       IN IF id \notin DOMAIN profiles
          THEN /\ pc' = pc
               /\ loc' = loc
               /\ last' = Returned(t, l, FALSE)
               /\ hist' = Append(hist, Summary(l, FALSE))
               /\ UNCHANGED <<profiles, heap>>
          ELSE /\ pc' = [pc EXCEPT ![t] = "dl_rmtree"]
               /\ loc' = [loc EXCEPT ![t] = l]
               /\ last' = NoLast
               /\ hist' = hist
               /\ UNCHANGED <<profiles, heap>>
    /\ UNCHANGED <<now, disk, nfaults>>

\* profile_dir.exists() for profile_dir = profiles_dir / id
DirExists(d, id) == id \in (DOMAIN d) \cup {Here, Up}

\* the disk once shutil.rmtree(profiles_dir / id) has removed the tree:
\* profiles_dir with all it holds for ".", everything under the parent for
\* "..", the one sub-directory otherwise
Rmtree(d, id) ==
    IF id = Here THEN Restrict(d, (DOMAIN d) \cap {Up})
    ELSE IF id = Up THEN EmptyDict
    ELSE DelKey(d, id)

\* lines 204-206: shutil.rmtree unlinks the files one by one and then the
\* directory; when it raises, any part of the files is already gone.  For
\* ".." the last rmdir, of a path through the removed profiles_dir, raises
\* after everything is gone.
DeleteRmtree(t) ==
    /\ pc[t] = "dl_rmtree"
    /\ IF DirExists(disk, loc[t].id)
       THEN \/ /\ loc[t].id # Up
               /\ disk' = Rmtree(disk, loc[t].id)
               /\ pc' = [pc EXCEPT ![t] = "dl_del"]
               /\ UNCHANGED <<profiles, heap, loc, last, hist, nfaults>>
            \/ /\ loc[t].id = Up
               /\ disk' = Rmtree(disk, loc[t].id)
               /\ UNCHANGED nfaults
               /\ Return(t, loc[t], FALSE, profiles, heap)
            \/ \E gone \in SUBSET (IF loc[t].id \in DOMAIN disk
                                     THEN DOMAIN disk[loc[t].id] ELSE {}) :
                 /\ loc[t].id \in DOMAIN disk
                 /\ nfaults < MaxFaults
                 /\ nfaults' = nfaults + 1
                 /\ disk' = [disk EXCEPT ![loc[t].id] =
                                Restrict(@, (DOMAIN @) \ gone)]
                 /\ Return(t, [loc[t] EXCEPT !.io_failed = TRUE], FALSE, profiles, heap)
       ELSE /\ pc' = [pc EXCEPT ![t] = "dl_del"]
            /\ UNCHANGED <<disk, profiles, heap, loc, last, hist, nfaults>>
    /\ UNCHANGED <<now, ncalls>>

\* the dictionary entry is left behind after the directory was removed
DeleteDelKeepsKey(t) ==
    /\ pc[t] = "dl_del"
    /\ Return(t, loc[t], TRUE, profiles, heap)
    /\ UNCHANGED <<now, disk, ncalls, nfaults>>

\* lines 209-212: del self.profiles[profile_id]; return True
DeleteDel(t) ==
    /\ pc[t] = "dl_del"
    /\ IF loc[t].id \in DOMAIN profiles
       THEN Return(t, loc[t], TRUE, DelKey(profiles, loc[t].id), heap)
       ELSE Return(t, loc[t], FALSE, profiles, heap)
    /\ UNCHANGED <<now, disk, ncalls, nfaults>>

\* ---------------------------------------------------- rename_profile
\* lines 232-240: unknown id returns False; otherwise the stored dict gets
\* the new name in place and is handed to save_profile under profile_id
BeginRename(t, id, new_name) ==
    /\ CanBegin(t)
    /\ ncalls' = ncalls + 1
    /\ LET l == [IdleLoc EXCEPT !.op = "rename", !.ctx = "rename", !.id = id,
                                !.new_name = new_name, !.pre_disk = disk,
                                !.pre_mem = MemView(profiles, heap)]
       IN IF id \notin DOMAIN profiles
          THEN /\ last' = Returned(t, l, FALSE)
               /\ hist' = Append(hist, Summary(l, FALSE))
               /\ UNCHANGED <<pc, loc, heap>>
          ELSE /\ heap' = [heap EXCEPT ![profiles[id]] = SetKey(@, "name", new_name)]
               /\ loc' = [loc EXCEPT ![t] = [l EXCEPT !.data = profiles[id]]]
               /\ pc' = [pc EXCEPT ![t] = "sv_mkdir"]
               /\ last' = NoLast
               /\ hist' = hist
    /\ UNCHANGED <<now, disk, profiles, nfaults>>

\* ---------------------------------------------------- create_profile
total_steps(l) == Len(l.files) * 3

\* progress_callback(step, total_steps, message) was called and returned r
Called(l, step, r) ==
    [l EXCEPT !.cb_log = Append(@, [current_step |-> step, total |-> total_steps(l),
                                    returned |-> r])]

\* lines 129-140
BeginCreate(t, audio_files, profile_name, has_cb) ==
    /\ CanBegin(t)
    /\ ncalls' = ncalls + 1
    /\ LET l == [IdleLoc EXCEPT !.op = "create", !.ctx = "create",
                                !.files = audio_files, !.name = profile_name,
                                !.has_cb = has_cb, !.i = 1, !.pre_disk = disk,
                                !.pre_mem = MemView(profiles, heap)]
       IN IF audio_files = <<>>
          THEN /\ last' = Returned(t, l, None)
               /\ hist' = Append(hist, Summary(l, None))
               /\ UNCHANGED <<pc, loc>>
          ELSE /\ pc' = [pc EXCEPT ![t] = "cr_before_file"]
               /\ loc' = [loc EXCEPT ![t] = l]
               /\ last' = NoLast
               /\ hist' = hist
    /\ UNCHANGED <<now, disk, profiles, heap, nfaults>>

\* a cancellation point: the callback, when there is one, is called with
\* step; False returns None, True goes on to next with the frame cont(l)
CancelPoint(t, step, bump, next, cont(_)) ==
    IF loc[t].has_cb
    THEN \E r \in BOOLEAN :
           IF r
           THEN LET l == Called(loc[t], step, TRUE)
                IN /\ pc' = [pc EXCEPT ![t] = next]
                   /\ loc' = [loc EXCEPT ![t] =
                                 cont([l EXCEPT !.current_step = @ + bump])]
                   /\ UNCHANGED <<profiles, heap, last, hist>>
           ELSE Return(t, Called(loc[t], step, FALSE), None, profiles, heap)
    ELSE /\ pc' = [pc EXCEPT ![t] = next]
         /\ loc' = [loc EXCEPT ![t] = cont(loc[t])]
         /\ UNCHANGED <<profiles, heap, last, hist>>

SameFrame(l) == l
NextFile(l) == [l EXCEPT !.i = @ + 1]

\* lines 144-148
CreateBeforeFile(t) ==
    /\ pc[t] = "cr_before_file"
    /\ CancelPoint(t, loc[t].current_step, 1, "cr_extract", SameFrame)
    /\ UNCHANGED <<now, disk, ncalls, nfaults>>

\* one failed extraction ends create_profile instead of being skipped
CreateExtractFatal(t) ==
    /\ pc[t] = "cr_extract"
    /\ \E readable \in BOOLEAN, backend \in EmbeddingBackend :
         LET failed == readable /\ backend # "ok"
             features == extract_features(loc[t].files[loc[t].i], readable, backend, now)
             l == [loc[t] EXCEPT !.features_list =
                                    IF features # None
                                    THEN Append(@, CHOOSE f \in features : TRUE) ELSE @,
                                 !.outcomes = Append(@, features),
                                 !.embed_failed = Append(@, failed)]
         IN /\ failed => nfaults < MaxFaults
            /\ nfaults' = IF failed THEN nfaults + 1 ELSE nfaults
            /\ IF features = None
               THEN Return(t, l, None, profiles, heap)
               ELSE /\ loc' = [loc EXCEPT ![t] = l]
                    /\ pc' = [pc EXCEPT ![t] = "cr_after_file"]
                    /\ UNCHANGED <<profiles, heap, last, hist>>
    /\ UNCHANGED <<now, disk, ncalls>>

\* lines 151-157: extract_voice_features gives None (missing or unreadable
\* file) or the features of the sample, with the fallback embedding when the
\* embedding backend failed
CreateExtract(t) ==
    /\ pc[t] = "cr_extract"
    /\ \E readable \in BOOLEAN, backend \in EmbeddingBackend :
         LET failed == readable /\ backend # "ok"
             features == extract_features(loc[t].files[loc[t].i], readable, backend, now)
         IN /\ failed => nfaults < MaxFaults
            /\ nfaults' = IF failed THEN nfaults + 1 ELSE nfaults
            /\ loc' = [loc EXCEPT ![t].features_list =
                                     IF features # None
                                     THEN Append(@, CHOOSE f \in features : TRUE) ELSE @,
                                  ![t].outcomes = Append(@, features),
                                  ![t].embed_failed = Append(@, failed)]
    /\ pc' = [pc EXCEPT ![t] = "cr_after_file"]
    /\ UNCHANGED <<now, disk, profiles, heap, last, hist, ncalls>>

\* lines 160-164, and the loop's next round
CreateAfterFile(t) ==
    /\ pc[t] = "cr_after_file"
    /\ CancelPoint(t, loc[t].current_step, 1,
                   IF loc[t].i < Len(loc[t].files) THEN "cr_before_file"
                   ELSE "cr_collected", NextFile)
    /\ UNCHANGED <<now, disk, ncalls, nfaults>>

\* lines 166-174
CreateCollected(t) ==
    /\ pc[t] = "cr_collected"
    /\ IF loc[t].features_list = <<>>
       THEN Return(t, loc[t], None, profiles, heap)
       ELSE CancelPoint(t, loc[t].current_step, 0, "cr_aggregate", SameFrame)
    /\ UNCHANGED <<now, disk, ncalls, nfaults>>

\* f"{profile_name}_{int(time.time())}"
MakeProfileId(profile_name, t) == profile_name \o <<"_", TimeStr(t)>>

\* a profile dict whose sample_count is the number of input files
MakeProfileDataCountsFiles(profile_name, t, features_list, audio_files, aggregated) ==
    LET base == [name |-> profile_name, created_at |-> t,
                 sample_count |-> Len(audio_files), sample_files |-> audio_files]
    IN [k \in (DOMAIN base) \cup (DOMAIN aggregated) |->
           IF k \in DOMAIN aggregated \ {"sample_count"} THEN aggregated[k] ELSE base[k]]

\* lines 185-191: the dict literal, aggregated_features last
MakeProfileData(profile_name, t, features_list, audio_files, aggregated) ==
    LET base == [name |-> profile_name, created_at |-> t,
                 sample_count |-> Len(features_list), sample_files |-> audio_files]
    IN [k \in (DOMAIN base) \cup (DOMAIN aggregated) |->
           IF k \in DOMAIN aggregated THEN aggregated[k] ELSE base[k]]

\* the empty aggregation result is not looked at
CreateAggregateUnchecked(t) ==
    /\ pc[t] = "cr_aggregate"
    /\ \E raised \in BOOLEAN :
         LET aggregated_features ==
                 IF raised THEN EmptyDict
                 ELSE aggregate_features(loc[t].features_list, now)
         IN /\ loc' = [loc EXCEPT ![t].id = MakeProfileId(loc[t].name, now),
                                  ![t].agg_failed = (aggregated_features = EmptyDict),
                                  ![t].profile_data =
                                      MakeProfileData(loc[t].name, now,
                                                      loc[t].features_list,
                                                      loc[t].files,
                                                      aggregated_features)]
            /\ pc' = [pc EXCEPT ![t] = "cr_before_save"]
            /\ UNCHANGED <<profiles, heap, last, hist>>
    /\ UNCHANGED <<now, disk, ncalls, nfaults>>

\* lines 177-191; the numpy calls of aggregate_features may raise, and its
\* except clause (lines 451-455) then returns {}
CreateAggregate(t) ==
    /\ pc[t] = "cr_aggregate"
    /\ \E raised \in BOOLEAN :
         LET aggregated_features ==
                 IF raised THEN EmptyDict
                 ELSE aggregate_features(loc[t].features_list, now)
         IN IF aggregated_features = EmptyDict
            THEN Return(t, [loc[t] EXCEPT !.agg_failed = TRUE], None, profiles, heap)
            ELSE /\ loc' = [loc EXCEPT ![t].id = MakeProfileId(loc[t].name, now),
                                       ![t].profile_data =
                                           MakeProfileData(loc[t].name, now,
                                                           loc[t].features_list,
                                                           loc[t].files,
                                                           aggregated_features)]
                 /\ pc' = [pc EXCEPT ![t] = "cr_before_save"]
                 /\ UNCHANGED <<profiles, heap, last, hist>>
    /\ UNCHANGED <<now, disk, ncalls, nfaults>>

\* the answer of the last progress callback is not looked at
CreateBeforeSaveIgnoresCancel(t) ==
    /\ pc[t] = "cr_before_save"
    /\ \E r \in BOOLEAN :
         LET l == IF loc[t].has_cb
                  THEN Called(loc[t], total_steps(loc[t]) - 1, r) ELSE loc[t]
             ref == NewRef(heap)
         IN /\ heap' = SetKey(heap, ref, l.profile_data)
            /\ loc' = [loc EXCEPT ![t] = [l EXCEPT !.data = ref]]
            /\ pc' = [pc EXCEPT ![t] = "sv_mkdir"]
            /\ UNCHANGED <<profiles, last, hist>>
    /\ UNCHANGED <<now, disk, ncalls, nfaults>>

\* lines 194-200: the last cancellation point, then save_profile is entered
CreateBeforeSave(t) ==
    /\ pc[t] = "cr_before_save"
    /\ IF loc[t].has_cb
       THEN \E r \in BOOLEAN :
              LET l == Called(loc[t], total_steps(loc[t]) - 1, r)
                  ref == NewRef(heap)
              IN IF r
                 THEN /\ heap' = SetKey(heap, ref, l.profile_data)
                      /\ loc' = [loc EXCEPT ![t] = [l EXCEPT !.data = ref]]
                      /\ pc' = [pc EXCEPT ![t] = "sv_mkdir"]
                      /\ UNCHANGED <<profiles, last, hist>>
                 ELSE Return(t, l, None, profiles, heap)
       ELSE LET ref == NewRef(heap)
            IN /\ heap' = SetKey(heap, ref, loc[t].profile_data)
               /\ loc' = [loc EXCEPT ![t].data = ref]
               /\ pc' = [pc EXCEPT ![t] = "sv_mkdir"]
               /\ UNCHANGED <<profiles, last, hist>>
    /\ UNCHANGED <<now, disk, ncalls, nfaults>>

\* the completion callback is called whether or not the save succeeded
CreateDoneAlwaysReports(t) ==
    /\ pc[t] = "cr_done"
    /\ IF loc[t].has_cb
       THEN \E r \in BOOLEAN :
              Return(t, Called(loc[t], total_steps(loc[t]), r),
                     IF loc[t].save_ok THEN Some(loc[t].id) ELSE None, profiles, heap)
       ELSE Return(t, loc[t], IF loc[t].save_ok THEN Some(loc[t].id) ELSE None,
                   profiles, heap)
    /\ UNCHANGED <<now, disk, ncalls, nfaults>>

\* lines 200-210: the completion callback's answer is not looked at
CreateDone(t) ==
    /\ pc[t] = "cr_done"
    /\ IF loc[t].save_ok
       THEN IF loc[t].has_cb
            THEN \E r \in BOOLEAN :
                   Return(t, Called(loc[t], total_steps(loc[t]), r),
                          Some(loc[t].id), profiles, heap)
            ELSE Return(t, loc[t], Some(loc[t].id), profiles, heap)
       ELSE Return(t, loc[t], None, profiles, heap)
    /\ UNCHANGED <<now, disk, ncalls, nfaults>>

\* --------------------------------------------------- specification
Next ==
    \/ Tick
    \/ Restart
    \/ \E t \in MainThread :
         \/ \E id \in SaveIds, d \in SaveData : BeginSave(t, id, d)
         \/ SaveMkdir(t)
         \/ SaveWriteJson(t)
         \/ SaveEmbedding(t)
         \/ SaveF0Samples(t)
         \/ SaveMelSpec(t)
         \/ SaveCommit(t)
         \/ \E id \in (DOMAIN profiles) \cup {UnknownId, LegacyId} : BeginDelete(t, id)
         \/ DeleteRmtree(t)
         \/ DeleteDel(t)
         \/ \E id \in (DOMAIN profiles) \cup {UnknownId}, n \in NewNames :
              BeginRename(t, id, n)
         \/ \E fs \in AudioFileLists, n \in ProfileNames, cb \in BOOLEAN :
              BeginCreate(t, fs, n, cb)
         \/ CreateBeforeFile(t)
         \/ CreateExtract(t)
         \/ CreateAfterFile(t)
         \/ CreateCollected(t)
         \/ CreateAggregate(t)
         \/ CreateBeforeSave(t)
         \/ CreateDone(t)

Spec == Init /\ [][Next]_vars

\* ------------------------------------------------- concurrent callers
\* VoiceProfileManager holds no lock: a second thread may enter save_profile
\* while the first is between two of its writes.
ConcurrentInit ==
    /\ now = 0
    /\ disk = EmptyDict
    /\ profiles = FreshProfiles(disk)
    /\ heap = FreshHeap(disk)
    /\ pc = [t \in ConcurrentThreads |-> "idle"]
    /\ loc = [t \in ConcurrentThreads |-> IdleLoc]
    /\ last = NoLast
    /\ hist = <<>>
    /\ ncalls = 0
    /\ nfaults = 0

\* thread t enters save_profile whatever the other thread is doing
BeginSaveConcurrent(t, id, d) ==
    /\ pc[t] = "idle"
    /\ ncalls < MaxCalls
    /\ LET r == NewRef(heap)
       IN /\ heap' = [x \in (DOMAIN heap) \cup {r} |-> IF x = r THEN d ELSE heap[x]]
          /\ loc' = [loc EXCEPT ![t] =
                        [IdleLoc EXCEPT !.op = "save", !.ctx = "direct", !.id = id,
                                        !.data = r, !.pre_disk = disk,
                                        !.pre_mem = MemView(profiles, heap)]]
    /\ pc' = [pc EXCEPT ![t] = "sv_mkdir"]
    /\ last' = NoLast
    /\ hist' = hist
    /\ ncalls' = ncalls + 1
    /\ UNCHANGED <<now, disk, profiles, nfaults>>

ConcurrentNext ==
    \E t \in ConcurrentThreads :
        \/ \E id \in SaveIds, d \in SaveData : BeginSaveConcurrent(t, id, d)
        \/ SaveMkdir(t)
        \/ SaveWriteJson(t)
        \/ SaveEmbedding(t)
        \/ SaveF0Samples(t)
        \/ SaveMelSpec(t)
        \/ SaveCommit(t)

ConcurrentSpec == ConcurrentInit /\ [][ConcurrentNext]_vars

\* ------------------------------------------------- save under any id
\* save_profile called once on an empty store with every id of up to
\* MaxIdLen characters
IdChars == {"a", " ", TAB, "/", ":"}
InputIds == UNION {[1..n -> IdChars] : n \in 0..MaxIdLen}

SanitizeInit ==
    /\ now \in 0..MaxTime
    /\ disk = EmptyDict
    /\ profiles = FreshProfiles(disk)
    /\ heap = FreshHeap(disk)
    /\ pc = [t \in MainThread |-> "idle"]
    /\ loc = [t \in MainThread |-> IdleLoc]
    /\ last = NoLast
    /\ hist = <<>>
    /\ ncalls = 0
    /\ nfaults = 0

BeginSaveAnyId(t, id, d) == ncalls = 0 /\ BeginSave(t, id, d)

SanitizeNext ==
    \E t \in MainThread :
        \/ \E id \in InputIds, d \in SaveData : BeginSaveAnyId(t, id, d)
        \/ SaveMkdir(t)
        \/ SaveWriteJson(t)
        \/ SaveEmbedding(t)
        \/ SaveF0Samples(t)
        \/ SaveMelSpec(t)
        \/ SaveCommit(t)

SanitizeSpec == SanitizeInit /\ [][SanitizeNext]_vars

\* --------------------------------------------- startup on any directory
\* the manager is built on a profiles directory whose two subdirectories
\* hold any part of the four files, each readable or damaged
FileNames == {"profile.json"} \cup {SidecarFile(k) : k \in ArrayKeys}

FileContent(file) ==
    CASE file = "profile.json" ->
             [name |-> <<"a">>, sample_count |-> 1, created_at |-> 0, updated_at |-> 0]
      [] file = "speaker_embedding.npy" -> P1.speaker_embedding
      [] file = "f0_samples.npy" -> P1.f0_samples
      [] file = "mel_spec_mean.npy" -> P1.mel_spec_mean

DirContents ==
    UNION { { [f \in fs |-> IF f \in bad THEN CorruptFile ELSE GoodFile(FileContent(f))]
              : bad \in SUBSET fs }
            : fs \in SUBSET FileNames }

LoadIds == { <<"a">>, LegacyId }

LoadDisks ==
    UNION { [ids -> DirContents] : ids \in SUBSET LoadIds }

LoadInit ==
    /\ now = 0
    /\ disk \in LoadDisks
    /\ profiles = FreshProfiles(disk)
    /\ heap = FreshHeap(disk)
    /\ pc = [t \in MainThread |-> "idle"]
    /\ loc = [t \in MainThread |-> IdleLoc]
    /\ last = NoLast
    /\ hist = <<>>
    /\ ncalls = 0
    /\ nfaults = 0

LoadNext == Restart \/ Tick

LoadSpec == LoadInit /\ [][LoadNext]_vars

\* ------------------------------------------- ids that name no child
\* save_profile on an id of up to MaxIdLen characters, dots among them,
\* and delete_profile of what the map holds; the disk does not fail
PathChars == {"a", ".", " ", "/"}
PathIds == UNION {[1..n -> PathChars] : n \in 1..MaxIdLen}

PathInit ==
    /\ now \in 0..MaxTime
    /\ disk \in InitDisks
    /\ profiles = FreshProfiles(disk)
    /\ heap = FreshHeap(disk)
    /\ pc = [t \in MainThread |-> "idle"]
    /\ loc = [t \in MainThread |-> IdleLoc]
    /\ last = NoLast
    /\ hist = <<>>
    /\ ncalls = 0
    /\ nfaults = MaxFaults

BeginSavePath(t, id, d) == ncalls = 0 /\ BeginSave(t, id, d)

PathNext ==
    \/ Restart
    \/ \E t \in MainThread :
         \/ \E id \in PathIds, d \in SaveData : BeginSavePath(t, id, d)
         \/ SaveMkdir(t)
         \/ SaveWriteJson(t)
         \/ SaveEmbedding(t)
         \/ SaveF0Samples(t)
         \/ SaveMelSpec(t)
         \/ SaveCommit(t)
         \/ \E id \in DOMAIN profiles : BeginDelete(t, id)
         \/ DeleteRmtree(t)
         \/ DeleteDel(t)

PathSpec == PathInit /\ [][PathNext]_vars

\* ------------------------------------------- VoiceProfileDialog
\* VoiceCloneManager.voice_profiles is the manager's own dict, so the
\* dialog's del acts on self.profiles.  The list shows the keys of that dict.
\* _delete_profile: the user picks a list item and answers the question;
\* on Yes the file profiles_dir/<name>.npz is unlinked if it exists (no
\* operation of the store writes such a file, so it does not), the key is
\* deleted from the dict and the item is taken from the list
DialogDeleteProfile(t, profile_name, reply) ==
    /\ CanBegin(t)
    /\ ncalls' = ncalls + 1
    /\ LET l == [IdleLoc EXCEPT !.op = "dialog_delete", !.id = profile_name,
                                !.pre_disk = disk,
                                !.pre_mem = MemView(profiles, heap)]
           pr == IF reply /\ profile_name \in DOMAIN profiles
                 THEN DelKey(profiles, profile_name) ELSE profiles
       IN Return(t, l, reply, pr, heap)
    /\ UNCHANGED <<now, disk, nfaults>>

DialogNext ==
    \/ Tick
    \/ Restart
    \/ \E t \in MainThread :
         \/ \E id \in SaveIds, d \in SaveData : BeginSave(t, id, d)
         \/ SaveMkdir(t)
         \/ SaveWriteJson(t)
         \/ SaveEmbedding(t)
         \/ SaveF0Samples(t)
         \/ SaveMelSpec(t)
         \/ SaveCommit(t)
         \/ \E name \in DOMAIN profiles, reply \in BOOLEAN :
              DialogDeleteProfile(t, name, reply)

DialogSpec == Init /\ [][DialogNext]_vars

\* ------------------------------------------- aggregate_features alone
\* aggregate_features called on every list of up to MaxSamples features
\* a sample with many voiced frames
FLong == [speaker_embedding |-> UnitVector(1), f0 |-> [i \in 1..600 |-> i],
          f0_stats |-> [mean |-> 2, std |-> 1], mel_spec |-> << <<2, 2>> >>]
\* a sample with under 10% voiced frames: every frame is then taken as
\* voiced, the unvoiced frames' nan enter np.mean and np.std (lines 103-113)
FUnvoiced == [speaker_embedding |-> UnitVector(2), f0 |-> <<NaN, NaN>>,
              f0_stats |-> [mean |-> NaN, std |-> NaN], mel_spec |-> << <<0, 2>> >>]
\* a feature dict without an embedding
FNoEmbedding == [f0 |-> <<5>>, f0_stats |-> [mean |-> 5, std |-> 1],
                 mel_spec |-> << <<6>> >>]

FeatureSet == {FA, FB, FLong, FUnvoiced, FNoEmbedding}
FeatureLists == UNION {[1..n -> FeatureSet] : n \in 0..MaxSamples}

AggregateInit ==
    /\ now \in 0..MaxTime
    /\ disk = EmptyDict
    /\ profiles = FreshProfiles(disk)
    /\ heap = FreshHeap(disk)
    /\ pc = [t \in MainThread |-> "ag_call"]
    /\ \E fl \in FeatureLists :
         loc = [t \in MainThread |->
                  [IdleLoc EXCEPT !.op = "aggregate", !.features_list = fl]]
    /\ last = NoLast
    /\ hist = <<>>
    /\ ncalls = 0
    /\ nfaults = 0

\* the call returns its result dict
AggregateCall(t) ==
    /\ pc[t] = "ag_call"
    /\ pc' = [pc EXCEPT ![t] = "idle"]
    /\ loc' = [loc EXCEPT ![t] = IdleLoc]
    /\ last' = [kind |-> "aggregate", features_list |-> loc[t].features_list,
                result |-> aggregate_features(loc[t].features_list, now), at |-> now]
    /\ UNCHANGED <<now, disk, profiles, heap, hist, ncalls, nfaults>>

AggregateNext == \E t \in MainThread : AggregateCall(t)

AggregateSpec == AggregateInit /\ [][AggregateNext]_vars

\* ------------------------------------------------------------ claims
Lookup(m, id) == IF id \in DOMAIN m THEN Some(m[id]) ELSE None
Mem == MemView(profiles, heap)
OnDisk == LoadExisting(disk)
CallReturned(op) == last.kind = "return" /\ last.op = op

SavePcs == {"sv_json", "sv_emb", "sv_f0", "sv_mel", "sv_commit"}

\* the entry a reload shows is wholly the saved dict p: its metadata and
\* every array of p
IsVersion(entry, p, t) ==
    /\ Restrict(entry, (DOMAIN entry) \ ArrayKeys) = Metadata(p, t)
    /\ \A k \in ArrayKeys \cap DOMAIN p : HasKey(entry, k) /\ entry[k] = p[k]

\* a progress callback called before the save answered False
CancelRequested(f) ==
    \E i \in 1..Len(f.cb_log) :
        ~f.cb_log[i].returned /\ f.cb_log[i].current_step < f.cb_log[i].total

IsSome(o) == o # None
\* the features of the samples whose extraction succeeded, in input order
Successes(outcomes) ==
    LET s == SelectSeq(outcomes, IsSome)
    IN [i \in 1..Len(s) |-> CHOOSE x \in s[i] : TRUE]

\* C1: a process stop anywhere inside save_profile(id, p) leaves, after the
\* restart, the entry of id either as it was before the call (absent or the
\* previous version) or wholly p (metadata and every sidecar of p).
CrashAtomicSave ==
    last.kind = "crash" =>
        \A t \in Threads :
            last.pc[t] \in SavePcs =>
                LET f == last.frames[t]
                    post == Lookup(OnDisk, f.safe)
                    pre == Lookup(LoadExisting(f.pre_disk), f.safe)
                IN \/ post = pre
                   \/ \E e \in post : IsVersion(e, last.heap[f.data], last.at)

\* C2: a save_profile or delete_profile call that hits a disk failure returns
\* False, leaves the in-memory map as it was, and leaves on disk nothing that
\* a reload would show differently from before the call.
FailedStoreCallLeavesNoTrace ==
    (/\ last.kind = "return" /\ last.op \in {"save", "delete"}
     /\ last.frame.io_failed)
    => /\ last.result = FALSE
       /\ Mem = last.frame.pre_mem
       /\ OnDisk = LoadExisting(last.frame.pre_disk)

\* C3: the id create_profile returns is a key of the store, and get_profile
\* of it is the profile just created.
CreateReturnsStoredId ==
    (CallReturned("create") /\ last.result # None)
    => \A id \in last.result :
          /\ id \in DOMAIN profiles
          /\ Mem[id] = last.frame.profile_data

\* C4: a rename_profile(id, new_name) that succeeds leaves the key set of the
\* map and the set of profile directories as they were, and changes nothing
\* but the name of the entry of id.
RenameKeepsIds ==
    (CallReturned("rename") /\ last.result = TRUE)
    => LET f == last.frame
       IN /\ DOMAIN profiles = DOMAIN f.pre_mem
          /\ DOMAIN disk = DOMAIN f.pre_disk
          /\ \A k \in DOMAIN f.pre_mem :
                Mem[k] = IF k = f.id THEN SetKey(f.pre_mem[k], "name", f.new_name)
                         ELSE f.pre_mem[k]

\* C5: when the re-save inside rename_profile fails, rename_profile returns
\* False and get_profile(id)['name'] is still the old name.
RenameFailureKeepsName ==
    (CallReturned("rename") /\ last.frame.io_failed)
    => /\ last.result = FALSE
       /\ last.frame.id \in DOMAIN profiles
       /\ Mem[last.frame.id].name = last.frame.pre_mem[last.frame.id].name

\* C6: when a progress callback called before the save answers False,
\* create_profile returns None and neither the map nor the disk has changed.
CancelLeavesStoreUnchanged ==
    (CallReturned("create") /\ CancelRequested(last.frame))
    => /\ last.result = None
       /\ Mem = last.frame.pre_mem
       /\ disk = last.frame.pre_disk

\* C6 witness: the callback answered False at the last point before the save,
\* after both files were processed and the features aggregated.
CancelledBeforeSave ==
    /\ CallReturned("create")
    /\ Len(last.frame.files) = 2
    /\ last.frame.profile_data # EmptyDict
    /\ Len(last.frame.cb_log) > 0
    /\ LET c == last.frame.cb_log[Len(last.frame.cb_log)]
       IN ~c.returned /\ c.current_step = c.total - 1

\* C7: with an empty sample list, with every extraction failed, or with a
\* failed aggregation, create_profile returns None and writes nothing.
CreateFailureWritesNothing ==
    (/\ CallReturned("create")
     /\ \/ last.frame.files = <<>>
        \/ /\ Len(last.frame.outcomes) = Len(last.frame.files)
           /\ Successes(last.frame.outcomes) = <<>>
        \/ last.frame.agg_failed)
    => /\ last.result = None
       /\ Mem = last.frame.pre_mem
       /\ disk = last.frame.pre_disk

\* C7 witness: two files, both extractions failed, no cancellation.
AllSamplesFailed ==
    /\ CallReturned("create")
    /\ last.frame.outcomes = <<None, None>>
    /\ ~CancelRequested(last.frame)
    /\ last.result = None

\* C8: when at least one sample extracted, nobody cancelled, and aggregation
\* and the disk did not fail, create_profile returns an id and the profile
\* stored and written under its sanitized form is the one built from exactly
\* the samples that extracted, wherever the failed ones stood.
SkipFailedSamples ==
    (/\ CallReturned("create")
     /\ Successes(last.frame.outcomes) # <<>>
     /\ ~CancelRequested(last.frame)
     /\ ~last.frame.agg_failed
     /\ ~last.frame.io_failed)
    => LET f == last.frame
           succ == Successes(f.outcomes)
           expected == MakeProfileData(f.name, last.at, succ, f.files,
                                       aggregate_features(succ, last.at))
       IN /\ last.result # None
          /\ \A id \in last.result :
               LET safe == sanitize_profile_id(id, last.at)
               IN /\ safe \in DOMAIN profiles
                  /\ Mem[safe] = expected
                  /\ expected.sample_count = Len(succ)
                  /\ safe \in DOMAIN disk
                  /\ HasKey(disk[safe], "profile.json")
                  /\ disk[safe]["profile.json"] = GoodFile(Metadata(expected, last.at))
                  /\ \A k \in ArrayKeys \cap DOMAIN expected :
                        /\ HasKey(disk[safe], SidecarFile(k))
                        /\ disk[safe][SidecarFile(k)] = GoodFile(expected[k])

\* C8 witness: the first file failed, the second extracted, a profile came out.
CreatedDespiteFailedSample ==
    /\ CallReturned("create")
    /\ last.frame.outcomes = <<None, Some(FB)>>
    /\ last.result # None

\* C9: delete_profile of an id the store does not hold returns False and
\* changes nothing; of an id it holds (the disk not failing) it returns True
\* and the id is gone, so that a second call is of the first kind.
DeleteIdempotent ==
    CallReturned("delete")
    => LET f == last.frame
       IN /\ f.id \notin DOMAIN f.pre_mem
             => /\ last.result = FALSE
                /\ Mem = f.pre_mem
                /\ disk = f.pre_disk
          /\ (f.id \in DOMAIN f.pre_mem /\ ~f.io_failed)
             => /\ last.result = TRUE
                /\ DOMAIN profiles = (DOMAIN f.pre_mem) \ {f.id}
                /\ f.id \notin DOMAIN disk

\* C9 witness: the same id deleted twice, True the first time, False the second.
DeletedTwice ==
    /\ Len(hist) = 2
    /\ hist[1].op = "delete" /\ hist[2].op = "delete"
    /\ hist[1].id = hist[2].id
    /\ hist[1].result = TRUE /\ hist[2].result = FALSE
    /\ CallReturned("delete")

\* C10: after delete_profile(id) returned True the id is neither in the map
\* nor loaded by a restart; after it returned False for an id the store held,
\* the profile is in the map and on disk exactly as before.
DeleteAllOrNothing ==
    (CallReturned("delete") /\ last.frame.id \in DOMAIN last.frame.pre_mem)
    => LET f == last.frame
       IN IF last.result
          THEN f.id \notin DOMAIN profiles /\ f.id \notin DOMAIN OnDisk
          ELSE /\ Lookup(Mem, f.id) = Lookup(f.pre_mem, f.id)
               /\ Lookup(OnDisk, f.id) = Lookup(LoadExisting(f.pre_disk), f.id)

RoundTripKeys == {"speaker_embedding", "f0_stats", "mel_spec_mean"}

\* C11: after save_profile(id, p) returned True, a restart shows an entry
\* under the sanitized id whose speaker_embedding, f0_stats and mel_spec_mean
\* are those of p.
SaveRoundTrip ==
    (CallReturned("save") /\ last.result = TRUE)
    => LET f == last.frame
           p == heap[profiles[f.safe]]
       IN /\ f.safe = sanitize_profile_id(f.id, last.at)
          /\ f.safe \in DOMAIN OnDisk
          /\ \A k \in RoundTripKeys \cap DOMAIN p :
                HasKey(OnDisk[f.safe], k) /\ OnDisk[f.safe][k] = p[k]

\* C12: after save_profile(id, p1) and then save_profile(id, p2), both
\* returning True with no disk failure, a restart shows for id exactly p2:
\* its metadata, its arrays, and no array that p2 does not hold.
ResaveIsFullReplace ==
    (/\ CallReturned("save") /\ last.result = TRUE
     /\ nfaults = 0
     /\ Len(hist) = 2
     /\ hist[1].op = "save" /\ hist[1].result = TRUE
     /\ hist[1].id = hist[2].id)
    => LET f == last.frame
           p2 == Mem[f.safe]
       IN \E e \in Lookup(OnDisk, f.safe) :
             /\ IsVersion(e, p2, last.at)
             /\ (DOMAIN e) \cap ArrayKeys = (DOMAIN p2) \cap ArrayKeys

\* C13: after a save_profile, rename_profile or delete_profile that returned
\* True, with no disk failure so far, get_profile shows for every id the
\* fields and values that a fresh load from disk shows (name, created_at and
\* updated_at included), and for the same ids.
MemoryAgreesWithDisk ==
    (/\ last.kind = "return" /\ last.op \in {"save", "rename", "delete"}
     /\ last.result = TRUE
     /\ nfaults = 0)
    => Mem = OnDisk

\* C14: when two save_profile calls on the same id have both returned True,
\* with no disk failure, the profile directory holds the metadata and the
\* sidecars of one and the same saved dict, and the in-memory entry is that
\* dict.
SavesAreSerialized ==
    (/\ AllIdle /\ nfaults = 0
     /\ Len(hist) = 2
     /\ hist[1].op = "save" /\ hist[2].op = "save"
     /\ hist[1].result = TRUE /\ hist[2].result = TRUE
     /\ hist[1].id = hist[2].id)
    => LET safe == sanitize_profile_id(hist[1].id, now)
       IN \E p \in SaveData :
             /\ disk[safe]["profile.json"] = GoodFile(Metadata(p, now))
             /\ \A k \in ArrayKeys \cap DOMAIN p :
                   /\ HasKey(disk[safe], SidecarFile(k))
                   /\ disk[safe][SidecarFile(k)] = GoodFile(p[k])
             /\ Mem[safe] = p

\* C15: a create_profile that returns an id stores under an id the store
\* did not hold before the call: no profile is overwritten and the number of
\* stored ids grows by exactly one.
CreateAddsOneId ==
    (CallReturned("create") /\ last.result # None)
    => LET f == last.frame
       IN /\ sanitize_profile_id(f.id, last.at) \notin DOMAIN f.pre_mem
          /\ Cardinality(DOMAIN profiles) = Cardinality(DOMAIN f.pre_mem) + 1

\* C16: a save_profile that meets no disk failure returns True and stores,
\* as directory name and as in-memory key, an id holding no space and none of
\* < > : " / \ | ? *; an id of which nothing is left after sanitizing is
\* stored as profile_<timestamp>.
StoredIdIsSanitized ==
    (CallReturned("save") /\ ~last.frame.io_failed)
    => LET f == last.frame
           stripped == strip(f.id)
       IN /\ last.result = TRUE
          /\ f.safe \in DOMAIN profiles
          /\ f.safe \in DOMAIN disk
          /\ DOMAIN profiles = {f.safe} /\ DOMAIN disk = {f.safe}
          /\ \A i \in 1..Len(f.safe) : f.safe[i] \notin {" "} \cup invalid_chars
          /\ (\A i \in 1..Len(stripped) : stripped[i] \in invalid_chars)
             => f.safe = <<"profile_", TimeStr(last.at)>>

\* C16 witness: an id of spaces and invalid characters only was saved under
\* the timestamp id.
SavedUnderFallbackId ==
    /\ CallReturned("save") /\ last.result = TRUE
    /\ last.frame.id = <<" ", "/", ":">>
    /\ last.frame.safe = <<"profile_", TimeStr(now)>>
    /\ last.frame.safe \in DOMAIN profiles

\* C17: rename_profile and delete_profile never make an absent id persisted:
\* called on an id the map does not hold they return False, and whatever id
\* they are called on, with no disk failure, every key of the map and every
\* profile directory after the call was there before it.
OnlySaveCreatesIds ==
    (/\ last.kind = "return" /\ last.op \in {"rename", "delete"}
     /\ nfaults = 0)
    => LET f == last.frame
       IN /\ f.id \notin DOMAIN f.pre_mem => last.result = FALSE
          /\ DOMAIN profiles \subseteq DOMAIN f.pre_mem
          /\ DOMAIN disk \subseteq DOMAIN f.pre_disk

\* C18: a rename_profile that returned True, with no disk failure, leaves in
\* profile.json the created_at that was there before the call and sets
\* updated_at to the time of the call.
RenameKeepsCreatedAt ==
    (/\ CallReturned("rename") /\ last.result = TRUE
     /\ nfaults = 0
     /\ last.frame.safe \in DOMAIN last.frame.pre_disk
     /\ HasKey(last.frame.pre_disk[last.frame.safe], "profile.json"))
    => LET f == last.frame
           before == f.pre_disk[f.safe]["profile.json"].data
           after == disk[f.safe]["profile.json"].data
       IN /\ after.created_at = before.created_at
          /\ after.updated_at = last.at

\* C19: a fresh manager holds exactly the directories whose profile.json is
\* there and whose files can all be read, each with its metadata and the
\* sidecars that are there, whatever the state of the other directories.
LoadSkipsOnlyUnreadable ==
    /\ DOMAIN profiles \subseteq DOMAIN disk
    /\ \A id \in DOMAIN disk :
         LET dir == disk[id]
             readable == /\ HasKey(dir, "profile.json")
                         /\ \A f \in DOMAIN dir : dir[f].ok
         IN /\ id \in DOMAIN profiles <=> readable
            /\ readable =>
                 /\ DOMAIN Mem[id] =
                       (DOMAIN dir["profile.json"].data)
                       \cup {k \in ArrayKeys : HasKey(dir, SidecarFile(k))}
                 /\ \A k \in DOMAIN Mem[id] :
                       Mem[id][k] = IF k \in ArrayKeys THEN dir[SidecarFile(k)].data
                                    ELSE dir["profile.json"].data[k]

\* C19 witness: after a restart, one directory with a damaged sidecar is
\* skipped while the other, holding profile.json and one sidecar only, is
\* loaded.
LoadedBesideDamaged ==
    /\ last.kind = "crash"
    /\ DOMAIN disk = LoadIds
    /\ DOMAIN disk[LegacyId] = {"profile.json", "f0_samples.npy"}
    /\ ~disk[LegacyId]["f0_samples.npy"].ok
    /\ disk[LegacyId]["profile.json"].ok
    /\ DOMAIN disk[<<"a">>] = {"profile.json", "mel_spec_mean.npy"}
    /\ DOMAIN profiles = { <<"a">> }
    /\ HasKey(Mem[<<"a">>], "mel_spec_mean")

AggregateReturned == last.kind = "aggregate"
Wellformed(r) == r # EmptyDict
CarriesEmbedding(f) == "speaker_embedding" \in DOMAIN f

RECURSIVE F0Concat(_)
\* the f0 arrays of the samples, one after the other in input order
F0Concat(fl) ==
    IF fl = <<>> THEN <<>>
    ELSE (IF "f0" \in DOMAIN Head(fl) THEN Head(fl).f0 ELSE <<>>) \o F0Concat(Tail(fl))

F0SamplesOf(r) == IF "f0_samples" \in DOMAIN r THEN r.f0_samples ELSE <<>>

\* C21: the f0_samples of an aggregation result are at most 1000 values and
\* are a prefix of the samples' f0 arrays concatenated in input order: all
\* of them when they are at most 1000, exactly the first 1000 otherwise.
F0SamplesBoundedPrefix ==
    (AggregateReturned /\ Wellformed(last.result))
    => LET cat == F0Concat(last.features_list)
           got == F0SamplesOf(last.result)
       IN /\ Len(got) <= 1000
          /\ got = SubSeq(cat, 1, IF Len(cat) > 1000 THEN 1000 ELSE Len(cat))

\* C21 witness: an aggregation of samples with more than 1000 f0 values in
\* all kept 1000 of them.
F0SamplesCapped ==
    /\ AggregateReturned /\ Wellformed(last.result)
    /\ Len(F0Concat(last.features_list)) > 1000
    /\ Len(F0SamplesOf(last.result)) = 1000

\* C22: every sample with an embedding gets a weight of at least 1, and the
\* merged embedding of a result is a vector of norm 1 without nan, also
\* when every pitch mean is 0.
WeightsKeepEmbeddingUnit ==
    (AggregateReturned /\ Wellformed(last.result))
    => /\ \A i \in 1..Len(last.features_list) :
             CarriesEmbedding(last.features_list[i])
             => /\ ~IsNaN(Weight(last.features_list[i]))
                /\ Weight(last.features_list[i]) >= 1
       /\ last.result.speaker_embedding.den2 > 0
       /\ Dot(last.result.speaker_embedding.num, last.result.speaker_embedding.num)
            = last.result.speaker_embedding.den2

PitchUsable(f) ==
    /\ "f0_stats" \in DOMAIN f
    /\ f.f0_stats.mean # NaN
    /\ f.f0_stats.mean > 0

\* C23: the f0_stats of an aggregation result are the averages of f0_mean
\* and f0_std over exactly the samples whose f0_mean is above 0, and
\* {110, 20} when there is no such sample; the mean is above 0 either way.
PitchMergeOverVoiced ==
    (AggregateReturned /\ Wellformed(last.result))
    => LET us == SelectSeq(last.features_list, PitchUsable)
           st == last.result.f0_stats
       IN /\ us = <<>> => st = [mean |-> <<110, 1>>, std |-> <<20, 1>>]
          /\ us # <<>> =>
                /\ st.mean[1] * Len(us) = st.mean[2] * SumSeq([i \in 1..Len(us) |-> us[i].f0_stats.mean])
                /\ st.std[1] * Len(us) = st.std[2] * SumSeq([i \in 1..Len(us) |-> us[i].f0_stats.std])
          /\ st.mean[1] > 0 /\ st.mean[2] > 0

\* C23 witness: an aggregation over samples of which some, but not all, have
\* a pitch mean above 0.
PitchMergedOverSome ==
    /\ AggregateReturned /\ Wellformed(last.result)
    /\ \E i, j \in 1..Len(last.features_list) :
          /\ PitchUsable(last.features_list[i])
          /\ last.features_list[j].f0_stats.mean = 0
    /\ last.result.f0_stats.mean # <<110, 1>>

ResultKeys == {"speaker_embedding", "f0_stats", "mel_spec_mean", "sample_count"}

\* C24: aggregate_features returns {} when the list is empty or no sample
\* has an embedding, and otherwise a result with speaker_embedding,
\* f0_stats, mel_spec_mean and sample_count.
AggregateEmptyIffNoEmbedding ==
    AggregateReturned
    => IF \E i \in 1..Len(last.features_list) : CarriesEmbedding(last.features_list[i])
       THEN Wellformed(last.result) /\ ResultKeys \subseteq DOMAIN last.result
       ELSE last.result = EmptyDict

\* C24 witness: a list in which one sample has an embedding and another has
\* none gave a result.
AggregatedBesideNoEmbedding ==
    /\ AggregateReturned /\ Wellformed(last.result)
    /\ \E i, j \in 1..Len(last.features_list) :
          /\ CarriesEmbedding(last.features_list[i])
          /\ ~CarriesEmbedding(last.features_list[j])

Perms(n) == {p \in [1..n -> 1..n] : \A i, j \in 1..n : i # j => p[i] # p[j]}
Permute(fl, p) == [i \in 1..Len(fl) |-> fl[p[i]]]

\* C25: the speaker_embedding, f0_stats, mel_spec_mean and sample_count of
\* the result are the same for every order of the same samples.
AggregateOrderIndependent ==
    AggregateReturned
    => \A p \in Perms(Len(last.features_list)) :
          LET r == aggregate_features(Permute(last.features_list, p), last.at)
          IN /\ Wellformed(r) <=> Wellformed(last.result)
             /\ Wellformed(r) => \A k \in ResultKeys : r[k] = last.result[k]

\* C25 witness: three samples were aggregated and another order of them
\* gives other f0_samples.
AggregatedOrderSensitiveSamples ==
    /\ AggregateReturned /\ Wellformed(last.result)
    /\ Len(last.features_list) = 3
    /\ \E p \in Perms(3) :
          F0SamplesOf(aggregate_features(Permute(last.features_list, p), last.at))
            # F0SamplesOf(last.result)

\* ---- create_profile: sample_count
\* the profile.json files create_profile wrote: only its dicts have sample_files
WrittenByCreate(dir) ==
    /\ HasKey(disk[dir], "profile.json")
    /\ disk[dir]["profile.json"].ok
    /\ HasKey(disk[dir]["profile.json"].data, "sample_files")

\* C26: a profile.json written by create_profile has a sample_count of at
\* least 1, and when create_profile returned an id, the sample_count in the
\* map and in profile.json is the number of input files whose extraction
\* succeeded.
SampleCountIsSuccessCount ==
    /\ \A dir \in DOMAIN disk :
          WrittenByCreate(dir) => disk[dir]["profile.json"].data.sample_count >= 1
    /\ (CallReturned("create") /\ last.result # None)
       => \A id \in last.result :
             LET safe == sanitize_profile_id(id, last.at)
                 n == Len(Successes(last.frame.outcomes))
             IN /\ n >= 1
                /\ Mem[safe].sample_count = n
                /\ WrittenByCreate(safe)
                /\ disk[safe]["profile.json"].data.sample_count = n

\* C26 witness: create_profile on two files, of which one could not be
\* read, returned an id and its profile.json is on disk.
CreatedWithOneOfTwoSamples ==
    /\ CallReturned("create") /\ last.result # None
    /\ Len(last.frame.files) = 2
    /\ Len(Successes(last.frame.outcomes)) = 1
    /\ \A id \in last.result : WrittenByCreate(sanitize_profile_id(id, last.at))

\* ---- paths
\* C27: save_profile writes files only inside a direct child of
\* profiles_dir, never into profiles_dir itself or its parent, and a
\* delete_profile call leaves every directory other than the one of its id
\* as it was.
PathContainment ==
    /\ \A name \in {Here, Up} \cap DOMAIN disk : disk[name] = EmptyDict
    /\ CallReturned("delete")
       => \A dir \in (DOMAIN last.frame.pre_disk) \ {last.frame.id} :
             /\ dir \in DOMAIN disk
             /\ disk[dir] = last.frame.pre_disk[dir]

\* C28: after a save_profile, rename_profile or delete_profile call returned
\* and no disk operation failed, the ids of the map are the sub-directories
\* of profiles_dir that hold a profile.json, and a restart shows the same ids.
IdSetAgreement ==
    (/\ last.kind = "return" /\ last.op \in {"save", "rename", "delete"}
     /\ ~last.frame.io_failed)
    => /\ DOMAIN profiles = {dir \in Children(disk) : HasKey(disk[dir], "profile.json")}
       /\ DOMAIN profiles = DOMAIN FreshProfiles(disk)

\* ---- create_profile: progress
\* the calls of the progress callback so far are in order and within range
ProgressInOrder(l) ==
    /\ \A i \in 1..Len(l.cb_log) :
          /\ l.cb_log[i].total = 3 * Len(l.files)
          /\ l.cb_log[i].current_step >= 0
          /\ l.cb_log[i].current_step <= l.cb_log[i].total
    /\ \A i, j \in 1..Len(l.cb_log) :
          i < j => l.cb_log[i].current_step <= l.cb_log[j].current_step
ReportedCompletion(l) ==
    \E i \in 1..Len(l.cb_log) : l.cb_log[i].current_step = l.cb_log[i].total

\* C29: in create_profile with a callback, every call of the callback has
\* total_steps = 3 * N, the current_step values never decrease and never
\* exceed total_steps, and the callback is called with current_step =
\* total_steps exactly when save_profile returned True, after it did: not
\* while the call is still running its steps, and, once the call returned,
\* if and only if it returned the id of a profile that the map holds.
ProgressReachesTotalOnlyAfterSave ==
    /\ \A t \in Threads :
          loc[t].op = "create"
          => /\ ProgressInOrder(loc[t])
             /\ ~ReportedCompletion(loc[t])
    /\ (CallReturned("create") /\ last.frame.has_cb /\ last.frame.files # <<>>)
       => /\ ProgressInOrder(last.frame)
          /\ ReportedCompletion(last.frame) <=> last.result # None
          /\ ReportedCompletion(last.frame)
             => /\ last.frame.save_ok
                /\ sanitize_profile_id(last.frame.id, last.at) \in DOMAIN profiles
                /\ last.frame.cb_log[Len(last.frame.cb_log)].current_step
                     = 3 * Len(last.frame.files)
    /\ (CallReturned("create") /\ ~last.frame.has_cb) => last.frame.cb_log = <<>>

\* C29 witness: create_profile on two files with a callback returned an id
\* after seven calls of the callback, the last with current_step 6 of 6.
ProgressReportedToTheEnd ==
    /\ CallReturned("create") /\ last.frame.has_cb
    /\ Len(last.frame.files) = 2
    /\ last.result # None
    /\ Len(last.frame.cb_log) = 7
    /\ last.frame.cb_log[7].current_step = 6

\* ---- VoiceProfileDialog
\* C30: after the user confirmed the deletion of a profile in the dialog,
\* the profile is not in the map, its directory is not on disk, and a
\* restart does not bring it back.
DialogDeleteIsDurable ==
    (CallReturned("dialog_delete") /\ last.result = TRUE)
    => /\ last.frame.id \notin DOMAIN profiles
       /\ last.frame.id \notin DOMAIN disk
       /\ last.frame.id \notin DOMAIN FreshProfiles(disk)

====
